---- MODULE Spec2Model ----
(***************************************************************************)
(* rsyncuptime: server.go.  One StatusChecker per discovered rsync module, *)
(* one polling goroutine per checker, an HTTP handler for /status/<module> *)
(* that serves a copy of the checker's history.                            *)
(*                                                                         *)
(* A Go string is a sequence of one-character strings, so that trimming,   *)
(* splitting, substring search and the validation pattern are computed on  *)
(* characters.                                                             *)
(***************************************************************************)
EXTENDS Integers, Sequences, FiniteSets, TLC

(***************************************************************************)
(* Bounds of the model.                                                    *)
(***************************************************************************)
MaxChecks == 0       \* checks the polling loops start on a tick, in Spec, SpecListing
                     \* (every loop's first check comes on top of these)
MaxPollChecks == 1   \* the same, in SpecPolling and SpecIsolated
MaxTickChecks == 1   \* the same, in SpecTicks
MaxModuleChecks == 2 \* checks the polling loop starts on a tick, in SpecModule
NumHandlers == 1     \* HTTP requests served at the same time, in SpecModule
NumWorkers == 2      \* concurrent performCheck calls in SpecAppend
MaxLen == 3          \* length of the identifiers given to isValidModulePath
MaxPieces == 3       \* pieces a probe output is made of in SpecClassify

(***************************************************************************)
(* Strings.                                                                *)
(***************************************************************************)
Lower == {"a","b","c","d","e","f","g","h","i","j","k","l","m",
          "n","o","p","q","r","s","t","u","v","w","x","y","z"}
Upper == {"A","B","C","D","E","F","G","H","I","J","K","L","M",
          "N","O","P","Q","R","S","T","U","V","W","X","Y","Z"}
Digit == {"0","1","2","3","4","5","6","7","8","9"}

\* unicode.IsSpace on the characters the model uses
WhiteSpace == {" ", "\t", "\n", "\r", "\f"}

RECURSIVE TrimLeft(_)
TrimLeft(s) ==
    IF s # <<>> /\ Head(s) \in WhiteSpace THEN TrimLeft(Tail(s)) ELSE s

RECURSIVE TrimRight(_)
TrimRight(s) ==
    IF s # <<>> /\ s[Len(s)] \in WhiteSpace
    THEN TrimRight(SubSeq(s, 1, Len(s) - 1))
    ELSE s

\* strings.TrimSpace
TrimSpace(s) == TrimRight(TrimLeft(s))

\* strings.HasPrefix
HasPrefix(s, p) == Len(s) >= Len(p) /\ SubSeq(s, 1, Len(p)) = p

\* strings.TrimPrefix
TrimPrefix(s, p) == IF HasPrefix(s, p) THEN SubSeq(s, Len(p) + 1, Len(s)) ELSE s

\* strings.Contains
Contains(s, sub) ==
    \E i \in 1..(Len(s) - Len(sub) + 1) : SubSeq(s, i, i + Len(sub) - 1) = sub

\* strings.Split(s, sep) for a one-character sep: the pieces between the
\* separators, always at least one element
SplitFrom(s, sep, k) ==
    LET at == {i \in 1..Len(s) : s[i] = sep}
        kth(n) == IF n = 0 THEN 0
                  ELSE IF n > Cardinality(at) THEN Len(s) + 1
                  ELSE CHOOSE i \in at : Cardinality({j \in at : j < i}) = n - 1
    IN  SubSeq(s, kth(k - 1) + 1, kth(k) - 1)

Split(s, sep) ==
    [k \in 1..(Cardinality({i \in 1..Len(s) : s[i] = sep}) + 1) |->
        SplitFrom(s, sep, k)]

\* bufio.Scanner with ScanLines: the lines without their "\n" and without a
\* "\r" at their end; a last line without "\n" is a line unless it is empty
DropCR(l) == IF l # <<>> /\ l[Len(l)] = "\r" THEN SubSeq(l, 1, Len(l) - 1) ELSE l

ScanLines(s) ==
    LET parts == Split(s, "\n")
        n == Len(parts)
        kept == IF parts[n] = <<>> THEN SubSeq(parts, 1, n - 1) ELSE parts
    IN  [i \in 1..Len(kept) |-> DropCR(kept[i])]

\* strings.Fields(s)[0] for a string with at least one non-space character
RECURSIVE TakeWord(_)
TakeWord(s) ==
    IF s = <<>> \/ Head(s) \in WhiteSpace THEN <<>>
    ELSE <<Head(s)>> \o TakeWord(Tail(s))

FirstField(s) == TakeWord(TrimLeft(s))

RECURSIVE Concat(_)
Concat(ss) == IF ss = <<>> THEN <<>> ELSE Head(ss) \o Concat(Tail(ss))

Last(s) == s[Len(s)]

Max(a, b) == IF a >= b THEN a ELSE b

(***************************************************************************)
(* String constants of the program and of its environment.                 *)
(***************************************************************************)
Operational == <<"O","p","e","r","a","t","i","o","n","a","l">>
ErroDesconhecido ==
    <<"E","r","r","o"," ","d","e","s","c","o","n","h","e","c","i","d","o",
      " ","d","o"," ","r","s","y","n","c">>
UnknownModule ==
    <<"@","E","R","R","O","R",":"," ","U","n","k","n","o","w","n"," ",
      "m","o","d","u","l","e">>
StatusPrefix == <<"/","s","t","a","t","u","s","/">>

debian == <<"d","e","b","i","a","n">>
ubuntu == <<"u","b","u","n","t","u">>
nonexistent == <<"n","o","n","e","x","i","s","t","e","n","t">>
badChar == <<"b","a","d","!","c","h","a","r">>
dotDot == <<".",".">>

StatusOK == 200
StatusBadRequest == 400
StatusNotFound == 404
StatusInternalServerError == 500

DaySeconds == 86400

(***************************************************************************)
(* Data structures and pure functions of server.go.                        *)
(***************************************************************************)
\* the zero value of CheckResult
ZeroResult ==
    [IsUp |-> FALSE, Message |-> <<>>, Error |-> <<>>, HTTPStatus |-> 0,
     RsyncExitCode |-> 0, RsyncOutput |-> <<>>, Timestamp |-> 0]

\* What cmd.CombinedOutput() returns: err is "nil", "exit" (an *exec.ExitError
\* carrying the exit status) or "launch" (any other error: the process did not
\* run), out the captured output.
NoProbe == [err |-> "none", status |-> 0, out |-> <<>>]

\* performCheck: the first line of the output that is not blank, trimmed
FirstLine(outputStr) ==
    LET lines == Split(outputStr, "\n")
        nonEmpty == {i \in 1..Len(lines) : TrimSpace(lines[i]) # <<>>}
    IN  IF nonEmpty = {} THEN <<>>
        ELSE TrimSpace(lines[CHOOSE i \in nonEmpty : \A j \in nonEmpty : i <= j])

\* a classification that records the output of a successful probe too
ClassifyKeepsOutput(p, t) ==
    LET firstLine == IF FirstLine(p.out) = <<>> THEN ErroDesconhecido
                     ELSE FirstLine(p.out)
    IN  [ZeroResult EXCEPT
           !.Timestamp = t, !.IsUp = (p.err = "nil"),
           !.Message = IF p.err = "nil" THEN Operational ELSE <<>>,
           !.RsyncOutput = TrimSpace(p.out),
           !.RsyncExitCode = IF p.err = "exit" THEN p.status ELSE 0,
           !.HTTPStatus = IF p.err = "nil" THEN StatusOK
                          ELSE IF Contains(p.out, UnknownModule)
                          THEN StatusNotFound
                          ELSE StatusInternalServerError,
           !.Error = IF p.err = "nil" THEN <<>> ELSE firstLine]

\* a classification that looks for the sentinel at the start of the output
ClassifySentinelPrefix(p, t) ==
    IF p.err = "nil"
    THEN [ZeroResult EXCEPT !.Timestamp = t, !.IsUp = TRUE,
                            !.Message = Operational, !.Error = <<>>,
                            !.HTTPStatus = StatusOK, !.RsyncExitCode = 0]
    ELSE LET firstLine == IF FirstLine(p.out) = <<>> THEN ErroDesconhecido
                          ELSE FirstLine(p.out)
         IN  [ZeroResult EXCEPT
                !.Timestamp = t, !.IsUp = FALSE, !.Message = <<>>,
                !.RsyncOutput = TrimSpace(p.out),
                !.RsyncExitCode = IF p.err = "exit" THEN p.status ELSE 0,
                !.HTTPStatus = IF HasPrefix(p.out, UnknownModule)
                               THEN StatusNotFound
                               ELSE StatusInternalServerError,
                !.Error = firstLine]

\* a classification without the placeholder for an output of blank lines
ClassifyNoPlaceholder(p, t) ==
    IF p.err = "nil"
    THEN [ZeroResult EXCEPT !.Timestamp = t, !.IsUp = TRUE,
                            !.Message = Operational, !.Error = <<>>,
                            !.HTTPStatus = StatusOK, !.RsyncExitCode = 0]
    ELSE [ZeroResult EXCEPT
            !.Timestamp = t, !.IsUp = FALSE, !.Message = <<>>,
            !.RsyncOutput = TrimSpace(p.out),
            !.RsyncExitCode = IF p.err = "exit" THEN p.status ELSE 0,
            !.HTTPStatus = IF Contains(p.out, UnknownModule)
                           THEN StatusNotFound
                           ELSE StatusInternalServerError,
            !.Error = FirstLine(p.out)]

\* a classification that sets the message whatever the probe returned
ClassifyKeepsMessage(p, t) ==
    LET firstLine == IF FirstLine(p.out) = <<>> THEN ErroDesconhecido
                     ELSE FirstLine(p.out)
    IN  [ZeroResult EXCEPT
           !.Timestamp = t, !.IsUp = (p.err = "nil"),
           !.Message = Operational,
           !.RsyncOutput = IF p.err = "nil" THEN <<>> ELSE TrimSpace(p.out),
           !.RsyncExitCode = IF p.err = "exit" THEN p.status ELSE 0,
           !.HTTPStatus = IF p.err = "nil" THEN StatusOK
                          ELSE IF Contains(p.out, UnknownModule)
                          THEN StatusNotFound
                          ELSE StatusInternalServerError,
           !.Error = IF p.err = "nil" THEN <<>> ELSE firstLine]

\* a classification that leaves the status of a probe that could not be
\* started at zero
ClassifyLaunchNoStatus(p, t) ==
    LET firstLine == IF FirstLine(p.out) = <<>> THEN ErroDesconhecido
                     ELSE FirstLine(p.out)
    IN  [ZeroResult EXCEPT
           !.Timestamp = t, !.IsUp = (p.err = "nil"),
           !.Message = IF p.err = "nil" THEN Operational ELSE <<>>,
           !.RsyncOutput = IF p.err = "nil" THEN <<>> ELSE TrimSpace(p.out),
           !.RsyncExitCode = IF p.err = "exit" THEN p.status ELSE 0,
           !.HTTPStatus = IF p.err = "nil" THEN StatusOK
                          ELSE IF p.err = "launch" THEN 0
                          ELSE IF Contains(p.out, UnknownModule)
                          THEN StatusNotFound
                          ELSE StatusInternalServerError,
           !.Error = IF p.err = "nil" THEN <<>> ELSE firstLine]

\* performCheck, from the return of CombinedOutput to the complete newResult,
\* stamped with the clock reading t
Classify(p, t) ==
    IF p.err = "nil"
    THEN [ZeroResult EXCEPT !.Timestamp = t, !.IsUp = TRUE,
                            !.Message = Operational, !.Error = <<>>,
                            !.HTTPStatus = StatusOK, !.RsyncExitCode = 0]
    ELSE LET firstLine == IF FirstLine(p.out) = <<>> THEN ErroDesconhecido
                          ELSE FirstLine(p.out)
         IN  [ZeroResult EXCEPT
                !.Timestamp = t, !.IsUp = FALSE, !.Message = <<>>,
                !.RsyncOutput = TrimSpace(p.out),
                !.RsyncExitCode = IF p.err = "exit" THEN p.status ELSE 0,
                !.HTTPStatus = IF Contains(p.out, UnknownModule)
                               THEN StatusNotFound
                               ELSE StatusInternalServerError,
                !.Error = firstLine]

\* the pattern with * for +, and the pattern without the dot in its class
isValidModulePathStar(module) ==
    \A i \in 1..Len(module) :
        module[i] \in Lower \cup Upper \cup Digit \cup {"_", ".", "-"}

isValidModulePathNoDot(module) ==
    /\ Len(module) >= 1
    /\ \A i \in 1..Len(module) :
          module[i] \in Lower \cup Upper \cup Digit \cup {"_", "-"}

\* the regular expression ^[a-zA-Z0-9_.-]+$ (Go: $ is the end of the text)
ClassChars == Lower \cup Upper \cup Digit \cup {"_", ".", "-"}

isValidModulePath(module) ==
    /\ Len(module) >= 1
    /\ \A i \in 1..Len(module) : module[i] \in ClassChars

\* init: the polling interval in seconds, from POLLING_INTERVAL_SECONDS (unset,
\* or set to what Atoi reads; a text Atoi rejects counts as unset but for the
\* warning logged)
DefaultPollingInterval == 300
initPollingInterval(env) ==
    IF env.set /\ env.value > 0 THEN env.value ELSE DefaultPollingInterval

\* a capacity that is not raised to 1
NewStatusCheckerNoFloor(name, interval) ==
    [moduleName |-> name,
     path |-> <<"/">> \o name \o <<"/">>,
     results |-> <<>>,
     maxResults |-> DaySeconds \div interval,
     mu |-> [writer |-> FALSE, readers |-> 0]]

\* NewStatusChecker under the given polling interval (in seconds); mu is the
\* RWMutex: whether a writer holds it, and how many readers do
NewStatusChecker(name, interval) ==
    LET n == DaySeconds \div interval
    IN  [moduleName |-> name,
         path |-> <<"/">> \o name \o <<"/">>,
         results |-> <<>>,
         maxResults |-> IF n < 1 THEN 1 ELSE n,
         mu |-> [writer |-> FALSE, readers |-> 0]]

\* a parse that takes the whole trimmed line for the module name
RECURSIVE ModulesOfWholeLine(_)
ModulesOfWholeLine(lines) ==
    IF lines = <<>> THEN <<>>
    ELSE LET line == TrimSpace(Head(lines))
         IN  IF line = <<>> THEN ModulesOfWholeLine(Tail(lines))
             ELSE <<line>> \o ModulesOfWholeLine(Tail(lines))

\* discoverModules: the first field of every line that is not blank
RECURSIVE ModulesOf(_)
ModulesOf(lines) ==
    IF lines = <<>> THEN <<>>
    ELSE LET line == TrimSpace(Head(lines))
         IN  IF line = <<>> THEN ModulesOf(Tail(lines))
             ELSE <<FirstField(line)>> \o ModulesOf(Tail(lines))

discoverModules(p) ==
    IF p.err # "nil" THEN [failed |-> TRUE, modules |-> <<>>]
    ELSE [failed |-> FALSE, modules |-> ModulesOf(ScanLines(p.out))]

\* no response written yet
NoResponse == [code |-> 0, body |-> <<>>]

\* writeJSONError
writeJSONError(statusCode, message, urlPath) ==
    [code |-> statusCode,
     body |-> [path |-> urlPath, success |-> FALSE, error |-> message,
               code |-> statusCode]]

\* the handler looking the name up before validating it
statusHandlerLookupFirst(urlPath, reg) ==
    LET module == TrimPrefix(urlPath, StatusPrefix)
    IN  IF module = <<>>
        THEN [serve |-> 0,
              resp |-> writeJSONError(StatusBadRequest, "empty", urlPath)]
        ELSE IF module \notin DOMAIN reg
        THEN [serve |-> 0,
              resp |-> writeJSONError(StatusNotFound, "not monitored", urlPath)]
        ELSE IF ~isValidModulePath(module)
        THEN [serve |-> 0,
              resp |-> writeJSONError(StatusBadRequest, "invalid", urlPath)]
        ELSE [serve |-> reg[module], resp |-> NoResponse]

\* the handler answering a name it does not find as it answers a bad name
statusHandlerMiss400(urlPath, reg) ==
    LET module == TrimPrefix(urlPath, StatusPrefix)
    IN  IF module = <<>> \/ ~isValidModulePath(module) \/ module \notin DOMAIN reg
        THEN [serve |-> 0,
              resp |-> writeJSONError(StatusBadRequest, "invalid", urlPath)]
        ELSE [serve |-> reg[module], resp |-> NoResponse]

\* The /status/ handler up to the call of checker.ServeHTTP: the error
\* response it writes, or the checker it serves
statusHandler(urlPath, reg) ==
    LET module == TrimPrefix(urlPath, StatusPrefix)
    IN  IF module = <<>>
        THEN [serve |-> 0,
              resp |-> writeJSONError(StatusBadRequest, "empty", urlPath)]
        ELSE IF ~isValidModulePath(module)
        THEN [serve |-> 0,
              resp |-> writeJSONError(StatusBadRequest, "invalid", urlPath)]
        ELSE IF module \notin DOMAIN reg
        THEN [serve |-> 0,
              resp |-> writeJSONError(StatusNotFound, "not monitored", urlPath)]
        ELSE [serve |-> reg[module], resp |-> NoResponse]

\* an element with every field of the result, whether up or down
ResponseElementAllFields(res, path) ==
    [is_up |-> res.IsUp, success |-> res.IsUp, http_status |-> res.HTTPStatus,
     timestamp |-> res.Timestamp, path |-> path, message |-> res.Message,
     error |-> res.Error, code |-> res.RsyncExitCode]
    @@ (IF res.RsyncOutput # <<>> THEN [rsync_output |-> res.RsyncOutput]
        ELSE <<>>)

\* ServeHTTP: one element of the response, built from a stored result
ResponseElement(res, path) ==
    [is_up |-> res.IsUp, success |-> res.IsUp, http_status |-> res.HTTPStatus,
     timestamp |-> res.Timestamp, path |-> path]
    @@ (IF res.IsUp THEN [message |-> res.Message] ELSE [error |-> res.Error])
    @@ (IF res.RsyncOutput # <<>> THEN [rsync_output |-> res.RsyncOutput]
        ELSE <<>>)
    @@ (IF ~res.IsUp
        THEN [code |-> res.RsyncExitCode]
             @@ (IF res.RsyncExitCode # 0
                 THEN [rsync_exit_code |-> res.RsyncExitCode] ELSE <<>>)
        ELSE [code |-> 0])

\* the status taken from the oldest element
ServeResponseFirst(resultsCopy, path) ==
    [code |-> IF Len(resultsCopy) > 0 THEN resultsCopy[1].HTTPStatus
              ELSE StatusOK,
     body |-> [i \in 1..Len(resultsCopy) |->
                 ResponseElement(resultsCopy[i], path)]]

\* ServeHTTP after the copy: the status written and the encoded sequence
\* (the header defaults to 200 when WriteHeader was not called)
ServeResponse(resultsCopy, path) ==
    [code |-> IF Len(resultsCopy) > 0 THEN Last(resultsCopy).HTTPStatus
              ELSE StatusOK,
     body |-> [i \in 1..Len(resultsCopy) |->
                 ResponseElement(resultsCopy[i], path)]]

(***************************************************************************)
(* The environment: what the rsync subprocess may return.                  *)
(***************************************************************************)
ListingOutput ==
    debian \o <<" ", " ">> \o <<"D","e","b","i","a","n">> \o <<"\n">>
    \o ubuntu \o <<"\t">> \o <<"U","b","u","n","t","u">> \o <<"\n">>
DuplicateListing ==
    debian \o <<" ">> \o <<"1">> \o <<"\n", "\n">> \o debian \o <<"\n">>
ModuleListing == debian \o <<"\t">> \o <<"D","e","b","i","a","n">> \o <<"\n">>
FileListing == <<"d","r","w","x"," ",".","\n">>
UnknownModuleOutput == UnknownModule \o <<" ", "'", "x", "'", "\n">>
ChrootOutput ==
    <<"@","E","R","R","O","R",":"," ","c","h","r","o","o","t","\n">>

\* results of the discovery probe
DiscoveryResults ==
    { [err |-> "nil", status |-> 0, out |-> ListingOutput],
      [err |-> "nil", status |-> 0, out |-> DuplicateListing],
      [err |-> "exit", status |-> 10, out |-> ChrootOutput],
      [err |-> "launch", status |-> 0, out |-> <<>>] }

\* results of a module's probe
ProbeResults ==
    { [err |-> "nil", status |-> 0, out |-> FileListing],
      [err |-> "exit", status |-> 5, out |-> UnknownModuleOutput],
      [err |-> "exit", status |-> 12, out |-> ChrootOutput],
      [err |-> "launch", status |-> 0, out |-> <<>>] }

\* POLLING_INTERVAL_SECONDS values: capacities 1 and 2
PollingIntervals == {86400, 43200}

\* URL paths of the requests the /status/ handler is given
RequestPaths ==
    { StatusPrefix \o m : m \in {<<>>, debian, ubuntu, nonexistent, badChar, dotDot} }

(***************************************************************************)
(* State.                                                                  *)
(***************************************************************************)
VARIABLES
    pollingInterval,    \* the configured interval, in seconds
    mainPc,             \* main: "discover", "register", "serving", "exited";
                        \* "harness" when the functions are called directly
    discovery,          \* out, err of discoverModules' CombinedOutput
    discoveredModules,  \* main's discoveredModules
    checkers,           \* main's map from module name to checker (its index in sc)
    sc,                 \* the StatusChecker objects, in creation order
    pc,                 \* per goroutine running performCheck: where it is
    self,               \* per goroutine: the checker it works on
    caller,             \* per goroutine: "StartPolling" (the loop) or "direct"
    tickC,              \* per goroutine: whether ticker.C holds a tick
    probe,              \* per goroutine: out, err of CombinedOutput
    newResult,          \* per goroutine: performCheck's newResult
    loaded,             \* per goroutine: sc.results as read by the append
    reqPc,              \* per HTTP handler: where it is
    reqPath,            \* per HTTP handler: r.URL.Path
    reqSc,              \* per HTTP handler: the checker found in the map
    resultsCopy,        \* per HTTP handler: ServeHTTP's resultsCopy
    response,           \* per HTTP handler: status code and body written
    now,                \* the last reading of the clock
    appended,           \* history variable: per checker, every result appended
    budget,             \* checks the polling loops may still start on a tick
    vmPc,               \* isValidModulePath called alone: "call", "returned"
    vmModule,           \* isValidModulePath called alone: its argument
    vmMatched           \* isValidModulePath called alone: its result

vars ==
    <<pollingInterval, mainPc, discovery, discoveredModules, checkers, sc, pc,
      self,
      caller, tickC, probe, newResult, loaded, reqPc, reqPath, reqSc,
      resultsCopy, response, now, appended, budget, vmPc, vmModule, vmMatched>>

mainVars == <<pollingInterval, mainPc, discovery, discoveredModules, checkers>>
goVars == <<pc, self, caller, tickC, probe, newResult, loaded>>
reqVars == <<reqPc, reqPath, reqSc, resultsCopy, response>>
vmVars == <<vmPc, vmModule, vmMatched>>

Handlers == DOMAIN reqPc
Goroutines == DOMAIN pc
Live == mainPc # "exited"

(***************************************************************************)
(* main.                                                                   *)
(***************************************************************************)
\* the process starts: the configuration is loaded, nothing else exists
Start(intervals, handlers, checks) ==
    /\ pollingInterval \in intervals
    /\ mainPc = "discover"
    /\ discovery = NoProbe
    /\ discoveredModules = <<>>
    /\ checkers = <<>>
    /\ sc = <<>>
    /\ pc = <<>> /\ self = <<>> /\ caller = <<>> /\ tickC = <<>>
    /\ probe = <<>> /\ newResult = <<>> /\ loaded = <<>>
    /\ reqPc = [h \in handlers |-> "idle"]
    /\ reqPath = [h \in handlers |-> <<>>]
    /\ reqSc = [h \in handlers |-> 0]
    /\ resultsCopy = [h \in handlers |-> <<>>]
    /\ response = [h \in handlers |-> NoResponse]
    /\ now = 0
    /\ appended = <<>>
    /\ budget = checks
    /\ vmPc = "call" /\ vmModule = <<>> /\ vmMatched = FALSE

Init == Start(PollingIntervals, {1}, MaxChecks)

\* main logging the discovery error and going on with no module
DiscoverLogsError(p) ==
    /\ mainPc = "discover"
    /\ discovery' = p
    /\ mainPc' = "register"
    /\ discoveredModules' = discoverModules(p).modules
    /\ UNCHANGED <<pollingInterval, checkers, sc, goVars, reqVars, now,
                   appended, budget, vmVars>>

\* discoverModules(rsyncURL) returns; on an error log.Fatalf ends the process
Discover(p) ==
    /\ mainPc = "discover"
    /\ discovery' = p
    /\ LET d == discoverModules(p)
       IN  IF d.failed
           THEN mainPc' = "exited" /\ UNCHANGED discoveredModules
           ELSE mainPc' = "register" /\ discoveredModules' = d.modules
    /\ UNCHANGED <<pollingInterval, checkers, sc, goVars, reqVars, now,
                   appended, budget, vmVars>>

\* one iteration of main's loop: NewStatusChecker, StartPolling (the ticker
\* and the goroutine), checkers[module] = checker
Register ==
    /\ mainPc = "register"
    /\ Len(sc) < Len(discoveredModules)
    /\ LET module == discoveredModules[Len(sc) + 1]
           c == Len(sc) + 1
       IN  /\ sc' = Append(sc, NewStatusChecker(module, pollingInterval))
           /\ appended' = Append(appended, <<>>)
           /\ pc' = Append(pc, "first")
           /\ self' = Append(self, c)
           /\ caller' = Append(caller, "StartPolling")
           /\ tickC' = Append(tickC, FALSE)
           /\ probe' = Append(probe, NoProbe)
           /\ newResult' = Append(newResult, ZeroResult)
           /\ loaded' = Append(loaded, <<>>)
           /\ checkers' = (module :> c) @@ checkers
    /\ UNCHANGED <<pollingInterval, mainPc, discovery, discoveredModules,
                   reqVars, now, budget, vmVars>>

\* the loop is over: http.ListenAndServe listens
Serve ==
    /\ mainPc = "register"
    /\ Len(sc) = Len(discoveredModules)
    /\ mainPc' = "serving"
    /\ UNCHANGED <<pollingInterval, discovery, discoveredModules, checkers,
                   sc, goVars, reqVars, now, appended, budget, vmVars>>

\* http.ListenAndServe returns an error at once (the port is taken):
\* log.Fatalf ends the process
ServeFails ==
    /\ mainPc = "register"
    /\ Len(sc) = Len(discoveredModules)
    /\ mainPc' = "exited"
    /\ UNCHANGED <<pollingInterval, discovery, discoveredModules, checkers,
                   sc, goVars, reqVars, now, appended, budget, vmVars>>

(***************************************************************************)
(* StartPolling's goroutine and performCheck.                              *)
(***************************************************************************)
\* the ticker puts a tick in its channel (of capacity 1; a tick that finds
\* the channel full is dropped)
TickerFire(g) ==
    /\ Live
    /\ caller[g] = "StartPolling"
    /\ ~tickC[g]
    /\ tickC' = [tickC EXCEPT ![g] = TRUE]
    /\ UNCHANGED <<mainVars, sc, pc, self, caller, probe, newResult, loaded,
                   reqVars, now, appended,
                   budget, vmVars>>

\* a loop that waits for a tick before its first check too
ProbeStartAfterTick(g) ==
    /\ Live
    /\ \/ /\ caller[g] = "direct" /\ pc[g] = "first"
          /\ UNCHANGED <<tickC, budget>>
       \/ /\ caller[g] = "StartPolling" /\ pc[g] = "first" /\ tickC[g]
          /\ tickC' = [tickC EXCEPT ![g] = FALSE]
          /\ UNCHANGED budget
       \/ /\ caller[g] = "StartPolling" /\ pc[g] = "wait" /\ tickC[g]
          /\ budget > 0
          /\ budget' = budget - 1
          /\ tickC' = [tickC EXCEPT ![g] = FALSE]
    /\ pc' = [pc EXCEPT ![g] = "probing"]
    /\ UNCHANGED <<mainVars, sc, self, caller, probe, newResult, loaded,
                   reqVars, now, appended, vmVars>>

\* a loop that starts a check on every tick, the previous check over or not
ProbeStartOverlapping(g) ==
    /\ Live
    /\ \/ /\ pc[g] = "first"
          /\ UNCHANGED <<tickC, budget>>
       \/ /\ caller[g] = "StartPolling"
          /\ pc[g] \in {"wait", "probing", "classified"}
          /\ tickC[g]
          /\ budget > 0
          /\ budget' = budget - 1
          /\ tickC' = [tickC EXCEPT ![g] = FALSE]
    /\ pc' = [pc EXCEPT ![g] = "probing"]
    /\ UNCHANGED <<mainVars, sc, self, caller, probe, newResult, loaded,
                   reqVars, now, appended, vmVars>>

\* a check that takes the lock before it starts the subprocess
ProbeStartLocked(g) ==
    /\ Live
    /\ \/ /\ pc[g] = "first"
          /\ UNCHANGED <<tickC, budget>>
       \/ /\ caller[g] = "StartPolling" /\ pc[g] = "wait" /\ tickC[g]
          /\ budget > 0
          /\ budget' = budget - 1
          /\ tickC' = [tickC EXCEPT ![g] = FALSE]
    /\ ~sc[self[g]].mu.writer /\ sc[self[g]].mu.readers = 0
    /\ sc' = [sc EXCEPT ![self[g]].mu.writer = TRUE]
    /\ pc' = [pc EXCEPT ![g] = "probing"]
    /\ UNCHANGED <<mainVars, self, caller, probe, newResult, loaded,
                   reqVars, now, appended, vmVars>>

\* performCheck is entered (the first time at once, then on a tick received
\* from ticker.C) and the subprocess is started
ProbeStart(g) ==
    /\ Live
    /\ \/ /\ pc[g] = "first"
          /\ UNCHANGED <<tickC, budget>>
       \/ /\ caller[g] = "StartPolling" /\ pc[g] = "wait" /\ tickC[g]
          /\ budget > 0
          /\ budget' = budget - 1
          /\ tickC' = [tickC EXCEPT ![g] = FALSE]
    /\ pc' = [pc EXCEPT ![g] = "probing"]
    /\ UNCHANGED <<mainVars, sc, self, caller, probe, newResult, loaded,
                   reqVars, now, appended, vmVars>>

\* time.Now(): later than the last reading
ClockReadings(last) == {last + 1}

\* performCheck returning without a result when the subprocess did not run
ProbeReturnDropsLaunchError(g, p) ==
    /\ Live
    /\ pc[g] = "probing"
    /\ \E t \in ClockReadings(now) :
          /\ now' = t
          /\ newResult' = [newResult EXCEPT ![g] =
                              IF p.err = "launch" THEN ZeroResult
                              ELSE Classify(p, t)]
    /\ probe' = [probe EXCEPT ![g] = IF p.err = "launch" THEN NoProbe ELSE p]
    /\ pc' = [pc EXCEPT ![g] =
                 IF p.err # "launch" THEN "classified"
                 ELSE IF caller[g] = "StartPolling" THEN "wait" ELSE "done"]
    /\ UNCHANGED <<mainVars, sc, self, caller, tickC, loaded, reqVars,
                   appended, budget, vmVars>>

\* CombinedOutput returns p; the clock is read and newResult is filled
ProbeReturn(g, p) ==
    /\ Live
    /\ pc[g] = "probing"
    /\ \E t \in ClockReadings(now) :
          /\ now' = t
          /\ newResult' = [newResult EXCEPT ![g] = Classify(p, t)]
    /\ probe' = [probe EXCEPT ![g] = p]
    /\ pc' = [pc EXCEPT ![g] = "classified"]
    /\ UNCHANGED <<mainVars, sc, self, caller, tickC, loaded, reqVars,
                   appended, budget, vmVars>>

\* a mutex that excludes nobody
CanLockAlways(mu) == TRUE
CanRLockAlways(mu) == TRUE

\* sync.RWMutex: Lock returns when no writer and no reader holds the mutex,
\* RLock when no writer does
CanLock(mu) == ~mu.writer /\ mu.readers = 0
CanRLock(mu) == ~mu.writer

\* the eviction with its test off by one
EvictOffByOne(results, maxResults) ==
    IF Len(results) > maxResults + 1 THEN Tail(results) ELSE results

\* the eviction dropping the newest element
EvictNewest(results, maxResults) ==
    IF Len(results) > maxResults THEN SubSeq(results, 1, Len(results) - 1)
    ELSE results

\* if len(sc.results) > sc.maxResults { sc.results = sc.results[1:] }
EvictOldest(results, maxResults) ==
    IF Len(results) > maxResults THEN Tail(results) ELSE results

\* one mutex for all the checkers: Lock waits for every checker's to be free
LockAllFree(g) ==
    /\ Live
    /\ pc[g] = "classified"
    /\ \A c \in DOMAIN sc : CanLock(sc[c].mu)
    /\ sc' = [sc EXCEPT ![self[g]].mu.writer = TRUE]
    /\ loaded' = [loaded EXCEPT ![g] = sc[self[g]].results]
    /\ pc' = [pc EXCEPT ![g] = "locked"]
    /\ UNCHANGED <<mainVars, self, caller, tickC, probe, newResult, reqVars,
                   now, appended, budget, vmVars>>

\* sc.mu.Lock(), and the append reads sc.results
Lock(g) ==
    /\ Live
    /\ pc[g] = "classified"
    /\ CanLock(sc[self[g]].mu)
    /\ sc' = [sc EXCEPT ![self[g]].mu.writer = TRUE]
    /\ loaded' = [loaded EXCEPT ![g] = sc[self[g]].results]
    /\ pc' = [pc EXCEPT ![g] = "locked"]
    /\ UNCHANGED <<mainVars, self, caller, tickC, probe, newResult, reqVars,
                   now, appended, budget, vmVars>>

\* one history shared by all the checkers
StoreInAll(g) ==
    /\ Live
    /\ pc[g] = "locked"
    /\ sc' = [c \in DOMAIN sc |->
                [sc[c] EXCEPT !.results =
                    IF c = self[g] THEN Append(loaded[g], newResult[g])
                    ELSE Append(@, newResult[g])]]
    /\ appended' = [appended EXCEPT ![self[g]] = Append(@, newResult[g])]
    /\ pc' = [pc EXCEPT ![g] = "appended"]
    /\ UNCHANGED <<mainVars, self, caller, tickC, probe, newResult, loaded,
                   reqVars, now, budget, vmVars>>

\* the new result put in front of the history
StoreAtFront(g) ==
    /\ Live
    /\ pc[g] = "locked"
    /\ sc' = [sc EXCEPT ![self[g]].results = <<newResult[g]>> \o loaded[g]]
    /\ appended' = [appended EXCEPT ![self[g]] = Append(@, newResult[g])]
    /\ pc' = [pc EXCEPT ![g] = "appended"]
    /\ UNCHANGED <<mainVars, self, caller, tickC, probe, newResult, loaded,
                   reqVars, now, budget, vmVars>>

\* sc.results = append(sc.results, newResult): the longer slice is stored
Store(g) ==
    /\ Live
    /\ pc[g] = "locked"
    /\ sc' = [sc EXCEPT ![self[g]].results = Append(loaded[g], newResult[g])]
    /\ appended' = [appended EXCEPT ![self[g]] = Append(@, newResult[g])]
    /\ pc' = [pc EXCEPT ![g] = "appended"]
    /\ UNCHANGED <<mainVars, self, caller, tickC, probe, newResult, loaded,
                   reqVars, now, budget, vmVars>>

\* the eviction, then the deferred sc.mu.Unlock(); performCheck returns, to
\* the loop's wait for the next tick or to its direct caller
Unlock(g) ==
    /\ Live
    /\ pc[g] = "appended"
    /\ sc' = [sc EXCEPT ![self[g]].results =
                           EvictOldest(@, sc[self[g]].maxResults),
                        ![self[g]].mu.writer = FALSE]
    /\ pc' = [pc EXCEPT ![g] = IF caller[g] = "StartPolling" THEN "wait"
                                ELSE "done"]
    /\ probe' = [probe EXCEPT ![g] = NoProbe]
    /\ newResult' = [newResult EXCEPT ![g] = ZeroResult]
    /\ loaded' = [loaded EXCEPT ![g] = <<>>]
    /\ UNCHANGED <<mainVars, self, caller, tickC, reqVars, now, appended,
                   budget, vmVars>>

(***************************************************************************)
(* The /status/ handler and ServeHTTP.                                     *)
(***************************************************************************)
\* a request arrives; the handler validates the name and looks the checker up
Receive(h, urlPath) ==
    /\ mainPc = "serving"
    /\ reqPc[h] = "idle"
    /\ reqPath' = [reqPath EXCEPT ![h] = urlPath]
    /\ LET r == statusHandler(urlPath, checkers)
       IN  IF r.serve = 0
           THEN /\ response' = [response EXCEPT ![h] = r.resp]
                /\ reqPc' = [reqPc EXCEPT ![h] = "done"]
                /\ UNCHANGED reqSc
           ELSE /\ reqSc' = [reqSc EXCEPT ![h] = r.serve]
                /\ reqPc' = [reqPc EXCEPT ![h] = "serve"]
                /\ UNCHANGED response
    /\ UNCHANGED <<mainVars, sc, goVars, resultsCopy, now, appended,
                   budget, vmVars>>

\* sc.mu.RLock(); resultsCopy := make(...); copy(resultsCopy, sc.results)
RLock(h) ==
    /\ Live
    /\ reqPc[h] = "serve"
    /\ CanRLock(sc[reqSc[h]].mu)
    /\ sc' = [sc EXCEPT ![reqSc[h]].mu.readers = @ + 1]
    /\ resultsCopy' = [resultsCopy EXCEPT ![h] = sc[reqSc[h]].results]
    /\ reqPc' = [reqPc EXCEPT ![h] = "copied"]
    /\ UNCHANGED <<mainVars, goVars, reqPath, reqSc, response,
                   now, appended, budget, vmVars>>

\* the read lock kept until the handler returns, as a deferred RUnlock would
RUnlockDeferred(h) ==
    /\ Live
    /\ reqPc[h] = "copied"
    /\ reqPc' = [reqPc EXCEPT ![h] = "encoding"]
    /\ UNCHANGED <<mainVars, sc, goVars, reqPath, reqSc, resultsCopy, response,
                   now, appended, budget, vmVars>>

\* sc.mu.RUnlock()
RUnlock(h) ==
    /\ Live
    /\ reqPc[h] = "copied"
    /\ sc' = [sc EXCEPT ![reqSc[h]].mu.readers = @ - 1]
    /\ reqPc' = [reqPc EXCEPT ![h] = "encoding"]
    /\ UNCHANGED <<mainVars, goVars, reqPath, reqSc, resultsCopy, response,
                   now, appended, budget, vmVars>>

\* WriteHeader and the encoding of the response
Respond(h) ==
    /\ Live
    /\ reqPc[h] = "encoding"
    /\ response' = [response EXCEPT ![h] =
                      ServeResponse(resultsCopy[h], sc[reqSc[h]].path)]
    /\ reqPc' = [reqPc EXCEPT ![h] = "done"]
    /\ UNCHANGED <<mainVars, sc, goVars, reqPath, reqSc, resultsCopy, now,
                   appended, budget, vmVars>>

\* the handler returns
Finish(h) ==
    /\ Live
    /\ reqPc[h] = "done"
    /\ reqPc' = [reqPc EXCEPT ![h] = "idle"]
    /\ reqPath' = [reqPath EXCEPT ![h] = <<>>]
    /\ reqSc' = [reqSc EXCEPT ![h] = 0]
    /\ resultsCopy' = [resultsCopy EXCEPT ![h] = <<>>]
    /\ response' = [response EXCEPT ![h] = NoResponse]
    /\ UNCHANGED <<mainVars, sc, goVars, now, appended, budget, vmVars>>

(***************************************************************************)
(* The / handler.                                                          *)
(***************************************************************************)
\* the elements of a sequence
Range(q) == {q[i] : i \in DOMAIN q}

\* the body the / handler encodes: the endpoints of the modules discovered at
\* startup, and the first fields of the listing just obtained (none when the
\* subprocess failed)
rootResponse(modules, interval, p) ==
    [code |-> StatusOK,
     body |-> [path |-> <<"/">>, success |-> TRUE,
               monitored_modules |->
                   [m \in Range(modules) |-> StatusPrefix \o m],
               polling_interval_s |-> interval,
               rsync_directories |->
                   IF p.err = "nil" THEN ModulesOf(ScanLines(p.out))
                   ELSE <<>>]]

\* a request that no other pattern matches arrives: any path but "/" is
\* answered 404, and for "/" the rsync subprocess is started
ReceiveRoot(h, urlPath) ==
    /\ mainPc = "serving"
    /\ reqPc[h] = "idle"
    /\ ~HasPrefix(urlPath, StatusPrefix)
    /\ reqPath' = [reqPath EXCEPT ![h] = urlPath]
    /\ IF urlPath # <<"/">>
       THEN /\ response' = [response EXCEPT ![h] =
                   writeJSONError(StatusNotFound, "not found", urlPath)]
            /\ reqPc' = [reqPc EXCEPT ![h] = "done"]
       ELSE /\ reqPc' = [reqPc EXCEPT ![h] = "listing"]
            /\ UNCHANGED response
    /\ UNCHANGED <<mainVars, sc, goVars, reqSc, resultsCopy, now, appended,
                   budget, vmVars>>

\* a handler that takes the listing it obtains for the modules to serve
ListingReturnRefreshes(h, p) ==
    /\ Live
    /\ reqPc[h] = "listing"
    /\ LET r == rootResponse(discoveredModules, pollingInterval, p)
       IN  /\ response' = [response EXCEPT ![h] = r]
           /\ IF p.err = "nil"
              THEN /\ discoveredModules' = r.body.rsync_directories
                   /\ checkers' =
                         [m \in DOMAIN checkers
                               \cap Range(r.body.rsync_directories)
                            |-> checkers[m]]
              ELSE UNCHANGED <<discoveredModules, checkers>>
    /\ reqPc' = [reqPc EXCEPT ![h] = "done"]
    /\ UNCHANGED <<pollingInterval, mainPc, discovery, sc, goVars, reqPath,
                   reqSc, resultsCopy, now, appended, budget, vmVars>>

\* the subprocess of the / handler returns and the response is encoded
ListingReturn(h, p) ==
    /\ Live
    /\ reqPc[h] = "listing"
    /\ response' = [response EXCEPT ![h] =
                      rootResponse(discoveredModules, pollingInterval, p)]
    /\ reqPc' = [reqPc EXCEPT ![h] = "done"]
    /\ UNCHANGED <<mainVars, sc, goVars, reqPath, reqSc, resultsCopy, now,
                   appended, budget, vmVars>>

(***************************************************************************)
(* The program.                                                            *)
(***************************************************************************)
Run ==
    \/ Register
    \/ Serve
    \/ ServeFails
    \/ \E g \in Goroutines : TickerFire(g)
    \/ \E g \in Goroutines : ProbeStart(g)
    \/ \E g \in Goroutines : \E p \in ProbeResults : ProbeReturn(g, p)
    \/ \E g \in Goroutines : Lock(g)
    \/ \E g \in Goroutines : Store(g)
    \/ \E g \in Goroutines : Unlock(g)
    \/ \E h \in Handlers : \E u \in RequestPaths : Receive(h, u)
    \/ \E h \in Handlers : RLock(h)
    \/ \E h \in Handlers : RUnlock(h)
    \/ \E h \in Handlers : Respond(h)
    \/ \E h \in Handlers : Finish(h)

\* the program, against a server whose listing has two lines
Next ==
    \/ \E p \in DiscoveryResults : Discover(p)
    \/ Run

Spec == Init /\ [][Next]_vars

\* the program, against a server that lists the one module debian
InitModule == Start(PollingIntervals, 1..NumHandlers, MaxModuleChecks)

NextModule ==
    \/ Discover([err |-> "nil", status |-> 0, out |-> ModuleListing])
    \/ Run

SpecModule == InitModule /\ [][NextModule]_vars

(***************************************************************************)
(* The program once discovery has succeeded with the two-line listing, and *)
(* http.ListenAndServe listening for good.  SpecPolling assumes of the     *)
(* scheduler, the subprocesses and the mutex what Go and a responsive      *)
(* rsync give: a goroutine that can take a step does, every probe returns, *)
(* the ticker keeps firing (weak fairness; one condition for a goroutine   *)
(* and its ticker, since besides the tick at most one step of theirs is    *)
(* possible at a time), and a Lock that is possible again and again is     *)
(* granted (strong fairness: sync.RWMutex keeps the readers that arrive    *)
(* after a blocked Lock waiting).  SpecIsolated assumes this of the second *)
(* checker's goroutine and of the HTTP handlers only: the first checker's  *)
(* goroutine may stop anywhere, its probe may never return.                *)
(***************************************************************************)
PollResults ==
    { [err |-> "nil", status |-> 0, out |-> FileListing],
      [err |-> "launch", status |-> 0, out |-> <<>>] }

PollPaths == { StatusPrefix \o ubuntu }

InitPolling == Start({86400}, {1}, MaxPollChecks)

NextPolling ==
    \/ Discover([err |-> "nil", status |-> 0, out |-> ListingOutput])
    \/ Register
    \/ Serve
    \/ \E g \in Goroutines : TickerFire(g)
    \/ \E g \in Goroutines : ProbeStart(g)
    \/ \E g \in Goroutines : \E p \in PollResults : ProbeReturn(g, p)
    \/ \E g \in Goroutines : Lock(g)
    \/ \E g \in Goroutines : Store(g)
    \/ \E g \in Goroutines : Unlock(g)
    \/ \E h \in Handlers : \E u \in PollPaths : Receive(h, u)
    \/ \E h \in Handlers : RLock(h)
    \/ \E h \in Handlers : RUnlock(h)
    \/ \E h \in Handlers : Respond(h)
    \/ \E h \in Handlers : Finish(h)

\* goroutine g exists
Polls(g) == g \in Goroutines

\* the goroutine and its ticker keep running; Lock is granted
GoroutineFair(g) ==
    /\ WF_vars(Polls(g) /\ (\/ TickerFire(g)
                            \/ ProbeStart(g)
                            \/ \E p \in PollResults : ProbeReturn(g, p)
                            \/ Store(g)
                            \/ Unlock(g)))
    /\ SF_vars(Polls(g) /\ Lock(g))

HandlerFair(h) == WF_vars(RLock(h) \/ RUnlock(h) \/ Respond(h) \/ Finish(h))

SpecPolling ==
    /\ InitPolling /\ [][NextPolling]_vars
    /\ GoroutineFair(1) /\ GoroutineFair(2) /\ HandlerFair(1)

SpecIsolated ==
    /\ InitPolling /\ [][NextPolling]_vars
    /\ GoroutineFair(2) /\ HandlerFair(1)

\* The same program where nothing is assumed of the subprocesses, the ticker
\* or the scheduling of a polling loop outside its critical section: a probe
\* may never return.  A goroutine that holds the lock goes on to release it
\* (nothing between Lock and the deferred Unlock can block), and the HTTP
\* handlers run.
LockHolderFair(g) == WF_vars(Polls(g) /\ (Store(g) \/ Unlock(g)))

SpecStalled ==
    /\ InitPolling /\ [][NextPolling]_vars
    /\ LockHolderFair(1) /\ LockHolderFair(2) /\ HandlerFair(1)

(***************************************************************************)
(* performCheck called directly, as a test does, on one checker made by    *)
(* NewStatusChecker: by NumWorkers goroutines at once (SpecAppend), or     *)
(* once, on any probe result (SpecClassify).                               *)
(***************************************************************************)
Harness(intervals, workers) ==
    /\ pollingInterval \in intervals
    /\ mainPc = "harness"
    /\ discovery = NoProbe
    /\ discoveredModules = <<>>
    /\ checkers = <<>>
    /\ sc = <<NewStatusChecker(debian, pollingInterval)>>
    /\ pc = [g \in 1..workers |-> "first"]
    /\ self = [g \in 1..workers |-> 1]
    /\ caller = [g \in 1..workers |-> "direct"]
    /\ tickC = [g \in 1..workers |-> FALSE]
    /\ probe = [g \in 1..workers |-> NoProbe]
    /\ newResult = [g \in 1..workers |-> ZeroResult]
    /\ loaded = [g \in 1..workers |-> <<>>]
    /\ reqPc = <<>> /\ reqPath = <<>> /\ reqSc = <<>>
    /\ resultsCopy = <<>> /\ response = <<>>
    /\ now = 0
    /\ appended = << <<>> >>
    /\ budget = 0
    /\ vmPc = "call" /\ vmModule = <<>> /\ vmMatched = FALSE

\* capacities 1 to 4
AppendIntervals == {86400, 43200, 28800, 21600}

InitAppend == Harness(AppendIntervals, NumWorkers)

PerformCheck(results) ==
    \/ \E g \in Goroutines : ProbeStart(g)
    \/ \E g \in Goroutines : \E p \in results : ProbeReturn(g, p)
    \/ \E g \in Goroutines : Lock(g)
    \/ \E g \in Goroutines : Store(g)
    \/ \E g \in Goroutines : Unlock(g)

NextAppend == PerformCheck(ProbeResults)

SpecAppend == InitAppend /\ [][NextAppend]_vars

(***************************************************************************)
(* The program without HTTP requests: main and the polling loops, every    *)
(* result of a module's probe.                                             *)
(***************************************************************************)
InitTicks == Start({43200}, {}, MaxTickChecks)

NextTicks ==
    \/ \E p \in {[err |-> "nil", status |-> 0, out |-> ListingOutput],
                  [err |-> "launch", status |-> 0, out |-> <<>>]} : Discover(p)
    \/ Register
    \/ Serve
    \/ ServeFails
    \/ \E g \in Goroutines : TickerFire(g)
    \/ PerformCheck(ProbeResults)

SpecTicks == InitTicks /\ [][NextTicks]_vars

(***************************************************************************)
(* One checker under every kind of configured interval, its checks run by  *)
(* NumWorkers callers.                                                     *)
(***************************************************************************)
\* POLLING_INTERVAL_SECONDS: unset, rejected values, one second, the default,
\* values around half a day and a day, and more than a day
Environments ==
    {[set |-> FALSE, value |-> 0]}
    \cup {[set |-> TRUE, value |-> v] :
            v \in {-5, 0, 1, 43200, 43201, 86399, 86400, 86401, 90000}}

InitCapacity ==
    Harness({initPollingInterval(env) : env \in Environments}, NumWorkers)

NextCapacity == PerformCheck(PollResults)

SpecCapacity == InitCapacity /\ [][NextCapacity]_vars

(***************************************************************************)
(* main up to the return of discoverModules, for every listing of up to    *)
(* MaxListingPieces pieces and for the failures of the subprocess.         *)
(***************************************************************************)
MaxListingPieces == 5

ListingPieces ==
    { <<"a">>, <<" ", "b">>, <<"\n">>, <<" ", "\n">>, <<"\t">>, <<"\r">> }

RECURSIVE ListingSeqs(_)
ListingSeqs(n) ==
    IF n = 0 THEN {<<>>}
    ELSE LET shorter == ListingSeqs(n - 1)
         IN  shorter \cup {Append(q, x) : q \in shorter, x \in ListingPieces}

Listings == {Concat(q) : q \in ListingSeqs(MaxListingPieces)}

DiscoverInputs ==
    {[err |-> "nil", status |-> 0, out |-> o] : o \in Listings}
    \cup {[err |-> "exit", status |-> 10, out |-> o] :
            o \in {ChrootOutput, ListingOutput}}
    \cup {[err |-> "launch", status |-> 0, out |-> <<>>]}

InitDiscover == Start({86400}, {}, 0)

NextDiscover == \E p \in DiscoverInputs : Discover(p)

SpecDiscover == InitDiscover /\ [][NextDiscover]_vars

(***************************************************************************)
(* The program with its / handler, against a server whose listing changes  *)
(* after startup.                                                          *)
(***************************************************************************)
\* results of the / handler's subprocess: the listing of startup, a listing
\* with other names, and the two failures
ListingResults ==
    { [err |-> "nil", status |-> 0, out |-> ListingOutput],
      [err |-> "nil", status |-> 0,
       out |-> ModuleListing \o nonexistent \o <<"\n">>],
      [err |-> "exit", status |-> 10, out |-> ChrootOutput],
      [err |-> "launch", status |-> 0, out |-> <<>>] }

\* URL paths the / pattern is given
RootPaths == { <<"/">>, <<"/">> \o debian }

InitListing == Start({86400}, {1}, MaxChecks)

NextListing ==
    \/ Discover([err |-> "nil", status |-> 0, out |-> ListingOutput])
    \/ Register
    \/ Serve
    \/ \E g \in Goroutines : TickerFire(g)
    \/ \E g \in Goroutines : ProbeStart(g)
    \/ \E g \in Goroutines : \E p \in PollResults : ProbeReturn(g, p)
    \/ \E g \in Goroutines : Lock(g)
    \/ \E g \in Goroutines : Store(g)
    \/ \E g \in Goroutines : Unlock(g)
    \/ \E h \in Handlers : \E u \in PollPaths : Receive(h, u)
    \/ \E h \in Handlers : \E u \in RootPaths : ReceiveRoot(h, u)
    \/ \E h \in Handlers : \E p \in ListingResults : ListingReturn(h, p)
    \/ \E h \in Handlers : RLock(h)
    \/ \E h \in Handlers : RUnlock(h)
    \/ \E h \in Handlers : Respond(h)
    \/ \E h \in Handlers : Finish(h)

SpecListing == InitListing /\ [][NextListing]_vars

\* probe outputs: up to MaxPieces of these pieces, concatenated
Pieces ==
    { UnknownModule, <<"@","E","R","R","O","R",":"," ","c","h","r","o","o","t">>,
      <<"x">>, <<" ">>, <<"\t">>, <<"\n">> }

RECURSIVE PieceSeqs(_)
PieceSeqs(n) ==
    IF n = 0 THEN {<<>>}
    ELSE LET shorter == PieceSeqs(n - 1)
         IN  shorter \cup {Append(q, x) : q \in shorter, x \in Pieces}

Outputs == {Concat(q) : q \in PieceSeqs(MaxPieces)}

ExitStatuses == {1, 5, 12}

ClassifyInputs ==
    {[err |-> "nil", status |-> 0, out |-> o] : o \in Outputs}
    \cup {[err |-> "exit", status |-> n, out |-> o] :
            n \in ExitStatuses, o \in Outputs}
    \cup {[err |-> "launch", status |-> 0, out |-> <<>>]}

InitClassify == Harness({86400}, 1)

NextClassify == PerformCheck(ClassifyInputs)

SpecClassify == InitClassify /\ [][NextClassify]_vars

(***************************************************************************)
(* isValidModulePath called alone, on every identifier of at most MaxLen   *)
(* characters of IdChars.                                                  *)
(***************************************************************************)
IdChars ==
    {"a", "z", "A", "Z", "0", "9", "-", "_", ".",
     "/", " ", "!", "\n", "@", "[", "~", "{", ":", ",", "^"}

RECURSIVE Identifiers(_)
Identifiers(n) ==
    IF n = 0 THEN {<<>>}
    ELSE LET shorter == Identifiers(n - 1)
         IN  shorter \cup {Append(q, x) : q \in shorter, x \in IdChars}

InitValid ==
    /\ pollingInterval = 300
    /\ mainPc = "harness"
    /\ discovery = NoProbe
    /\ discoveredModules = <<>>
    /\ checkers = <<>>
    /\ sc = <<>>
    /\ pc = <<>> /\ self = <<>> /\ caller = <<>> /\ tickC = <<>>
    /\ probe = <<>> /\ newResult = <<>> /\ loaded = <<>>
    /\ reqPc = <<>> /\ reqPath = <<>> /\ reqSc = <<>>
    /\ resultsCopy = <<>> /\ response = <<>>
    /\ now = 0
    /\ appended = <<>>
    /\ budget = 0
    /\ vmPc = "call"
    /\ vmModule \in Identifiers(MaxLen)
    /\ vmMatched = FALSE

CallIsValid ==
    /\ vmPc = "call"
    /\ vmMatched' = isValidModulePath(vmModule)
    /\ vmPc' = "returned"
    /\ UNCHANGED <<mainVars, sc, goVars, reqVars, now, appended, budget,
                   vmModule>>

NextValid == CallIsValid

SpecValid == InitValid /\ [][NextValid]_vars

(***************************************************************************)
(* Properties.                                                             *)
(***************************************************************************)
\* the last n elements of s
LastN(s, n) == SubSeq(s, Max(1, Len(s) - n + 1), Len(s))

\* the history of capacity n after the appends of log, in that order
Window(log, n) == LastN(log, n)

\* the handlers that have copied a checker's history
Copied == {h \in Handlers : reqSc[h] # 0 /\ reqPc[h] \in {"copied", "encoding", "done"}}
Answered == {h \in Handlers : reqSc[h] # 0 /\ reqPc[h] = "done"}

\* C1: a history no writer is changing is never longer than the checker's
\* maxResults, and neither is the copy a query takes nor the sequence a
\* query returns.
C1_HistoryBounded ==
    /\ \A c \in DOMAIN sc :
          ~sc[c].mu.writer => Len(sc[c].results) <= sc[c].maxResults
    /\ \A h \in Copied : Len(resultsCopy[h]) <= sc[reqSc[h]].maxResults
    /\ \A h \in Answered : Len(response[h].body) <= sc[reqSc[h]].maxResults

\* a query returned a full history after an eviction
C1_Witness ==
    \E h \in Answered :
        /\ Len(response[h].body) = sc[reqSc[h]].maxResults
        /\ Len(appended[reqSc[h]]) > sc[reqSc[h]].maxResults

\* C2: once maxResults or more results have been appended (and no append is in
\* progress), the stored history is exactly the last maxResults results
\* appended, in the order of their appends.
C2_FifoEviction ==
    \A c \in DOMAIN sc :
        (~sc[c].mu.writer /\ Len(appended[c]) >= sc[c].maxResults)
        => sc[c].results = LastN(appended[c], sc[c].maxResults)

\* capacity 2, three appends of results that all differ, the oldest evicted
C2_Witness ==
    \E c \in DOMAIN sc :
        /\ ~sc[c].mu.writer
        /\ sc[c].maxResults = 2
        /\ Len(appended[c]) = sc[c].maxResults + 1
        /\ sc[c].results = <<appended[c][2], appended[c][3]>>
        /\ appended[c][1].HTTPStatus # appended[c][2].HTTPStatus
        /\ appended[c][2].HTTPStatus # appended[c][3].HTTPStatus

\* C3: the copy a query takes is the history as some number of completed
\* appends left it (eviction included), and while the query holds the read
\* lock it is the history as all appends so far left it; the query returns
\* one element per element of the copy.
C3_NoTornSnapshot ==
    \A h \in Copied :
        LET c == reqSc[h]
            cap == sc[c].maxResults
        IN  /\ \E n \in 0..Len(appended[c]) :
                  resultsCopy[h] = Window(SubSeq(appended[c], 1, n), cap)
            /\ reqPc[h] = "copied"
                  => resultsCopy[h] = Window(appended[c], cap)
            /\ reqPc[h] = "done" => Len(response[h].body) = Len(resultsCopy[h])

\* a query holds the full history of before an append that has since
\* completed with its eviction
C3_Witness ==
    \E h \in Copied :
        LET c == reqSc[h]
        IN  /\ reqPc[h] = "encoding"
            /\ ~sc[c].mu.writer
            /\ Len(appended[c]) = sc[c].maxResults + 1
            /\ resultsCopy[h] = SubSeq(appended[c], 1, sc[c].maxResults)
            /\ resultsCopy[h] # sc[c].results

\* C4: when NumWorkers concurrent performCheck calls on one checker with an
\* empty history and maxResults >= NumWorkers have all returned, the history
\* holds exactly NumWorkers results, one of each call (each call's result
\* carries its own clock reading).
AllReturned == \A g \in Goroutines : pc[g] = "done"

C4_NoLostAppend ==
    (AllReturned /\ NumWorkers <= sc[1].maxResults)
    => /\ Len(sc[1].results) = NumWorkers
       /\ {sc[1].results[i].Timestamp : i \in 1..Len(sc[1].results)}
             = 1..NumWorkers

\* all calls have returned and the history had room for all of them
C4_Witness ==
    /\ AllReturned
    /\ NumWorkers <= sc[1].maxResults
    /\ Len(sc[1].results) = NumWorkers
    /\ NumWorkers >= 2

\* C5: the status code of an answered query for a registered module is the
\* HTTPStatus of the last element of the copy it took (200 if that element is
\* up, 404 or 500 if it is down), whatever the older elements are, and 200
\* with no element when the copy is empty; the elements returned are the
\* copied results, in their order.
C5_LatestDecidesStatus ==
    \A h \in Answered :
        LET snap == resultsCopy[h]
            r == response[h]
        IN  /\ Len(r.body) = Len(snap)
            /\ \A i \in 1..Len(snap) :
                  /\ r.body[i].is_up = snap[i].IsUp
                  /\ r.body[i].http_status = snap[i].HTTPStatus
                  /\ r.body[i].timestamp = snap[i].Timestamp
            /\ snap = <<>> => r.code = StatusOK
            /\ snap # <<>> =>
                  /\ r.code = Last(snap).HTTPStatus
                  /\ Last(snap).IsUp => r.code = StatusOK
                  /\ ~Last(snap).IsUp =>
                        r.code \in {StatusNotFound, StatusInternalServerError}

\* answered 200 from a history whose older element is down
C5_Witness ==
    \E h \in Answered :
        /\ Len(resultsCopy[h]) = 2
        /\ resultsCopy[h][1].HTTPStatus = StatusNotFound
        /\ resultsCopy[h][2].IsUp
        /\ response[h].code = StatusOK

\* the identifiers the validation is to accept: not empty, and made of ASCII
\* letters, digits, '-', '_' and '.' only
AllowedIdChars == Lower \cup Upper \cup Digit \cup {"-", "_", "."}
IdentifierOK(m) == m # <<>> /\ \A i \in 1..Len(m) : m[i] \in AllowedIdChars

\* handler h takes a request in this step
ReceivedBy(h) == reqPc[h] = "idle" /\ reqPc'[h] # "idle"
ModuleOf(urlPath) == TrimPrefix(urlPath, StatusPrefix)

\* C6: the step in which the handler takes a request with an empty or invalid
\* name answers 400 at once, looks no checker up and changes neither the
\* registry nor any checker, goroutine or history; a valid name not in the
\* registry is answered 404; a registered name goes on to its checker's
\* history; and only a request with a valid, registered name is ever past
\* the lookup.
C6_InvalidRejectedFirst ==
    /\ [](\A h \in Handlers :
            reqPc[h] \in {"serve", "copied", "encoding"}
            => /\ IdentifierOK(ModuleOf(reqPath[h]))
               /\ ModuleOf(reqPath[h]) \in DOMAIN checkers)
    /\ [][\A h \in Handlers : ReceivedBy(h) =>
            LET module == ModuleOf(reqPath'[h])
            IN  /\ ~IdentifierOK(module) =>
                      /\ reqPc'[h] = "done"
                      /\ response'[h].code = StatusBadRequest
                      /\ reqSc'[h] = 0
                      /\ resultsCopy'[h] = <<>>
                      /\ UNCHANGED <<mainVars, sc, goVars, appended>>
                /\ (IdentifierOK(module) /\ module \notin DOMAIN checkers) =>
                      /\ reqPc'[h] = "done"
                      /\ response'[h].code = StatusNotFound
                /\ (IdentifierOK(module) /\ module \in DOMAIN checkers) =>
                      /\ reqPc'[h] = "serve"
                      /\ reqSc'[h] = checkers[module]
                      /\ response'[h] = NoResponse]_vars

\* "bad!char" was answered 400 while two checkers exist, one with a history
C6_Witness ==
    \E h \in Handlers :
        /\ reqPc[h] = "done"
        /\ reqPath[h] = StatusPrefix \o badChar
        /\ response[h].code = StatusBadRequest
        /\ Len(sc) = 2
        /\ \E c \in DOMAIN sc : sc[c].results # <<>>

\* C7: the step in which the handler takes a request with a valid name that is
\* not in the registry answers 404 with success false, and changes neither
\* the registry nor any checker, goroutine (no scheduler started, no probe
\* launched) or history.
C7_UnregisteredNotFound ==
    [][\A h \in Handlers :
          (/\ ReceivedBy(h)
           /\ IdentifierOK(ModuleOf(reqPath'[h]))
           /\ ModuleOf(reqPath'[h]) \notin DOMAIN checkers)
          => /\ reqPc'[h] = "done"
             /\ response'[h].code = StatusNotFound
             /\ response'[h].body.code = StatusNotFound
             /\ response'[h].body.success = FALSE
             /\ reqSc'[h] = 0
             /\ UNCHANGED <<mainVars, sc, goVars, appended, budget>>]_vars

\* "nonexistent" was answered 404 while two checkers exist
C7_Witness ==
    \E h \in Handlers :
        /\ reqPc[h] = "done"
        /\ reqPath[h] = StatusPrefix \o nonexistent
        /\ response[h].code = StatusNotFound
        /\ response[h].body.success = FALSE
        /\ DOMAIN checkers = {debian, ubuntu}

\* C8: isValidModulePath returns true exactly for the identifiers that are not
\* empty and made of ASCII letters, digits, '-', '_' and '.' only.
C8_ValidExactly ==
    vmPc = "returned" => (vmMatched <=> IdentifierOK(vmModule))

\* an identifier with a dot and a hyphen was accepted
C8_Witness ==
    /\ vmPc = "returned"
    /\ vmMatched
    /\ vmModule = <<"a", ".", "-">>

\* C9 as stated: isValidModulePath returns false for every identifier that
\* contains "..".
C9_DotDotRejected ==
    (vmPc = "returned" /\ Contains(vmModule, dotDot)) => ~vmMatched

\* C9, amended: for an identifier that contains "..", isValidModulePath
\* returns false exactly when the identifier also holds a character outside
\* the allowed ones; "..", made of allowed characters only, is accepted.
C9_DotDotRejectedIffBadChar ==
    (vmPc = "returned" /\ Contains(vmModule, dotDot))
    => (~vmMatched <=> \E i \in 1..Len(vmModule) : vmModule[i] \notin AllowedIdChars)

\* "../" was rejected
C9_Witness ==
    /\ vmPc = "returned"
    /\ vmModule = <<".", ".", "/">>
    /\ ~vmMatched

\* C10: the result performCheck builds from a probe that returned without
\* error is up, 200, "Operational", with Error and RsyncOutput empty and
\* RsyncExitCode 0, and that is the result it appends.
C10_ExitZeroIsUp ==
    \A g \in Goroutines :
        (pc[g] \in {"classified", "locked", "appended"} /\ probe[g].err = "nil")
        => /\ newResult[g].IsUp
           /\ newResult[g].HTTPStatus = StatusOK
           /\ newResult[g].Message = Operational
           /\ newResult[g].Error = <<>>
           /\ newResult[g].RsyncExitCode = 0
           /\ newResult[g].RsyncOutput = <<>>
           /\ pc[g] = "appended" => Last(sc[self[g]].results) = newResult[g]

\* a probe that printed the unknown-module text and exited 0 was recorded up
C10_Witness ==
    \E g \in Goroutines :
        /\ pc[g] = "appended"
        /\ probe[g].err = "nil"
        /\ Contains(probe[g].out, UnknownModule)
        /\ Last(sc[self[g]].results).IsUp
        /\ Last(sc[self[g]].results).RsyncOutput = <<>>

\* the goroutines that hold checker c's write lock, the handlers that hold
\* its read lock
Writers(c) == {g \in Goroutines : self[g] = c /\ pc[g] \in {"locked", "appended"}}
Readers(c) == {h \in Handlers : reqSc[h] = c /\ reqPc[h] = "copied"}
InCheck(g) == pc[g] \in {"probing", "classified", "locked", "appended"}

\* C13: whatever the first checker's goroutine does (it may stop anywhere: its
\* probe may never return, it may keep its lock), the second checker's first
\* check is performed and stored, each of its checks once started completes,
\* its next check starts on a tick as long as the model lets checks start,
\* and a query for the second module completes.  A checker's mutex is held
\* only by goroutines and handlers working on that checker (each works on
\* one), and no step changes the mutexes of two checkers.
C13_NoCrossModuleStall ==
    /\ [](\A c \in DOMAIN sc :
            /\ sc[c].mu.writer <=> Writers(c) # {}
            /\ Cardinality(Writers(c)) <= 1
            /\ sc[c].mu.readers = Cardinality(Readers(c)))
    /\ [][Len(sc') = Len(sc) =>
            Cardinality({c \in DOMAIN sc : sc'[c].mu # sc[c].mu}) <= 1]_vars
    /\ (Polls(2) /\ (pc[2] = "first" \/ InCheck(2)))
          ~> (Polls(2) /\ pc[2] = "wait" /\ sc[2].results # <<>>)
    /\ (Polls(2) /\ pc[2] = "wait" /\ budget > 0)
          ~> (budget = 0 \/ (Polls(2) /\ pc[2] = "probing"))
    /\ (reqPc[1] = "serve") ~> (reqPc[1] = "done")

\* the first module's first probe is still in flight; the second module has
\* completed two checks and a query for it has returned both results
C13_Witness ==
    /\ Polls(2)
    /\ pc[1] = "probing" /\ appended[1] = <<>>
    /\ Len(appended[2]) = 2 /\ pc[2] = "wait"
    /\ reqPc[1] = "done" /\ reqSc[1] = 2 /\ Len(response[1].body) = 1

\* C14: a polling loop's first check starts without taking a tick, from a
\* history still empty; every later check starts by taking a tick from
\* ticker.C; the loop never ends.  When every goroutine keeps running and
\* every probe returns, each registered checker's history becomes non-empty,
\* and the checks on ticks go on until the model lets no more start.
C14_FirstCheckThenTicks ==
    /\ [](\A g \in Goroutines :
            /\ pc[g] \in {"first", "probing", "classified", "locked",
                          "appended", "wait"}
            /\ pc[g] = "first" => appended[self[g]] = <<>>)
    /\ [][\A g \in Goroutines :
            /\ (pc[g] = "first" /\ pc'[g] # "first")
                  => (pc'[g] = "probing" /\ tickC'[g] = tickC[g])
            /\ (pc[g] = "wait" /\ pc'[g] # "wait")
                  => (pc'[g] = "probing" /\ tickC[g] /\ ~tickC'[g])]_vars
    /\ \A g \in 1..2 : Polls(g) ~> (Polls(g) /\ sc[g].results # <<>>)
    /\ Polls(1) ~> (budget = 0)

\* both histories are non-empty and a check on a tick has been stored
C14_Witness ==
    /\ Polls(2)
    /\ sc[1].results # <<>> /\ sc[2].results # <<>>
    /\ budget = 0
    /\ Len(appended[1]) = 2
    /\ pc[1] = "wait" /\ pc[2] = "wait"

\* the goroutines whose probe has returned and whose result is being stored
Classified == {g \in Goroutines : pc[g] \in {"classified", "locked", "appended"}}

\* e is the first line of out that is not blank, without the white space
\* around it
IsFirstNonEmptyLine(e, out) ==
    LET lines == Split(out, "\n")
    IN  /\ e # <<>>
        /\ \E i \in 1..Len(lines) :
              /\ TrimSpace(lines[i]) = e
              /\ \A j \in 1..(i - 1) : TrimSpace(lines[j]) = <<>>

HasNonEmptyLine(out) ==
    LET lines == Split(out, "\n")
    IN  \E i \in 1..Len(lines) : TrimSpace(lines[i]) # <<>>

\* C11: the result performCheck builds from a probe that exited non-zero with
\* the unknown-module sentinel anywhere in its output is down with
\* HTTPStatus 404, RsyncExitCode the probe's exit status, no Message, and
\* Error the first non-blank line of the output, trimmed; that is the result
\* it appends.
C11_UnknownModuleIs404 ==
    \A g \in Classified :
        (probe[g].err = "exit" /\ Contains(probe[g].out, UnknownModule))
        => /\ ~newResult[g].IsUp
           /\ newResult[g].HTTPStatus = StatusNotFound
           /\ newResult[g].RsyncExitCode = probe[g].status
           /\ newResult[g].Message = <<>>
           /\ IsFirstNonEmptyLine(newResult[g].Error, probe[g].out)
           /\ pc[g] = "appended" => Last(sc[self[g]].results) = newResult[g]

\* the sentinel was on the second line, after a line "x": 404, Error "x"
C11_Witness ==
    \E g \in Classified :
        /\ pc[g] = "appended"
        /\ probe[g].err = "exit" /\ probe[g].status = 5
        /\ probe[g].out = <<"x", "\n">> \o UnknownModule
        /\ Last(sc[self[g]].results).HTTPStatus = StatusNotFound
        /\ Last(sc[self[g]].results).Error = <<"x">>
        /\ Last(sc[self[g]].results).RsyncExitCode = 5

\* C12: the result performCheck builds from a probe that exited non-zero
\* without the unknown-module sentinel in its output is down with HTTPStatus
\* 500 and RsyncExitCode the probe's exit status; its Error is the first
\* non-blank line of the output, trimmed, and the placeholder
\* "Erro desconhecido do rsync" when every line is blank.
C12_OtherFailureIs500 ==
    \A g \in Classified :
        (probe[g].err = "exit" /\ ~Contains(probe[g].out, UnknownModule))
        => /\ ~newResult[g].IsUp
           /\ newResult[g].HTTPStatus = StatusInternalServerError
           /\ newResult[g].RsyncExitCode = probe[g].status
           /\ newResult[g].Message = <<>>
           /\ HasNonEmptyLine(probe[g].out)
                 => IsFirstNonEmptyLine(newResult[g].Error, probe[g].out)
           /\ ~HasNonEmptyLine(probe[g].out)
                 => newResult[g].Error = ErroDesconhecido
           /\ pc[g] = "appended" => Last(sc[self[g]].results) = newResult[g]

\* an output of blank lines only, exit status 12: 500 with the placeholder
C12_Witness ==
    \E g \in Classified :
        /\ pc[g] = "appended"
        /\ probe[g].err = "exit" /\ probe[g].status = 12
        /\ probe[g].out = <<" ", "\n", " ">>
        /\ Last(sc[self[g]].results).HTTPStatus = StatusInternalServerError
        /\ Last(sc[self[g]].results).Error = ErroDesconhecido

\* C15: once the discovery probe has failed (non-zero exit status or launch
\* error) the process has exited, and no checker, registry entry or polling
\* goroutine exists and no request has been taken; checkers exist and
\* requests are served only after a discovery that returned without error.
C15_DiscoveryFailureIsFatal ==
    /\ discovery.err \in {"exit", "launch"}
          => /\ mainPc = "exited"
             /\ discoveredModules = <<>> /\ checkers = <<>> /\ sc = <<>>
             /\ Goroutines = {}
             /\ budget = MaxChecks
             /\ \A h \in Handlers :
                   reqPc[h] = "idle" /\ response[h] = NoResponse
    /\ (\/ mainPc \in {"register", "serving"}
        \/ sc # <<>>
        \/ Goroutines # {}
        \/ \E h \in Handlers : reqPc[h] # "idle")
          => discovery.err = "nil"

\* the discovery probe exited with status 10 and the process has exited
C15_Witness ==
    /\ discovery.err = "exit" /\ discovery.status = 10
    /\ mainPc = "exited"
    /\ sc = <<>>

\* the results appended so far to any history that carry the clock reading t
StoredAt(t) ==
    {ci \in UNION {{<<c, i>> : i \in DOMAIN appended[c]} : c \in DOMAIN appended} :
        appended[ci[1]][ci[2]].Timestamp = t}

\* the results built with the clock reading t and not appended yet
PendingAt(t) ==
    {g \in Goroutines : pc[g] \in {"classified", "locked"}
                        /\ newResult[g].Timestamp = t}

\* C16: every probe that has returned (each return reads the clock once)
\* has exactly one result, appended to a history or about to be; the result
\* is up exactly when the probe returned no error, and for a subprocess that
\* could not be started it is down, 500, with the placeholder as Error; the
\* result built is the one appended, to the goroutine's own checker.  The
\* step in which a probe returns and the steps that store its result change
\* no other goroutine and do not end the process; after the append the loop
\* waits for the next tick, and it is never in any other place than those of
\* its cycle.
C16_ProbeFailureAbsorbed ==
    /\ [](\A t \in 1..now :
            Cardinality(StoredAt(t)) + Cardinality(PendingAt(t)) = 1)
    /\ [](\A g \in Classified :
            /\ newResult[g].IsUp <=> probe[g].err = "nil"
            /\ probe[g].err = "launch"
                  => /\ newResult[g].HTTPStatus = StatusInternalServerError
                     /\ newResult[g].Error = ErroDesconhecido
                     /\ newResult[g].RsyncExitCode = 0
            /\ pc[g] = "appended" => Last(appended[self[g]]) = newResult[g])
    /\ [](\A g \in Goroutines :
            pc[g] \in {"first", "probing", "classified", "locked", "appended",
                      "wait"})
    /\ [][\A g \in Goroutines :
            (pc[g] # "first" /\ pc'[g] # pc[g])
            => /\ mainPc' = mainPc
               /\ \A o \in Goroutines \ {g} : pc'[o] = pc[o]
               /\ \A c \in DOMAIN sc \ {self[g]} :
                     sc'[c] = sc[c] /\ appended'[c] = appended[c]
               /\ pc[g] = "probing" => pc'[g] = "classified"
               /\ pc[g] = "locked"
                     => /\ pc'[g] = "appended"
                        /\ appended'[self[g]] =
                              Append(appended[self[g]], newResult[g])
               /\ pc[g] # "locked" => appended' = appended
               /\ pc[g] = "appended" => pc'[g] = "wait"]_vars

\* a check on a tick whose subprocess could not be started has been recorded
\* as down, the loop waits for its next tick, the server is serving
C16_Witness ==
    \E g \in Goroutines :
        /\ pc[g] = "wait"
        /\ mainPc = "serving"
        /\ Len(appended[self[g]]) = 2
        /\ appended[self[g]][2].Error = ErroDesconhecido
        /\ appended[self[g]][2].HTTPStatus = StatusInternalServerError
        /\ ~appended[self[g]][2].IsUp
        /\ Len(sc[self[g]].results) = 2

\* C17: in every element of an answered query for a registered module,
\* success equals is_up, which is the stored result's IsUp; an up element has
\* code 0, the result's Message as message and no error field; a down
\* element has the result's RsyncExitCode as code, its Error as error and no
\* message field.
C17_ElementFields ==
    \A h \in Answered :
        \A i \in 1..Len(response[h].body) :
            LET el == response[h].body[i]
                res == resultsCopy[h][i]
            IN  /\ el.success = el.is_up
                /\ el.is_up = res.IsUp
                /\ el.is_up
                      => /\ el.code = 0
                         /\ "message" \in DOMAIN el /\ el.message = res.Message
                         /\ "error" \notin DOMAIN el
                /\ ~el.is_up
                      => /\ el.code = res.RsyncExitCode
                         /\ "error" \in DOMAIN el /\ el.error = res.Error
                         /\ "message" \notin DOMAIN el

\* a query returned a down element with code 5 followed by an up element
C17_Witness ==
    \E h \in Answered :
        /\ Len(response[h].body) = 2
        /\ ~response[h].body[1].is_up /\ response[h].body[1].code = 5
        /\ response[h].body[1].error = TrimSpace(UnknownModuleOutput)
        /\ response[h].body[2].is_up /\ response[h].body[2].code = 0
        /\ response[h].body[2].message = Operational

\* C18 as stated: the RsyncOutput of a down result is the first non-blank
\* line of the probe's output, for every output that has one.
C18_RawOutputIsFirstLine ==
    \A g \in Classified :
        (probe[g].err = "exit" /\ HasNonEmptyLine(probe[g].out))
        => IsFirstNonEmptyLine(newResult[g].RsyncOutput, probe[g].out)

\* C19: a checker's history is a run of consecutive results of those its
\* polling loop appended, in the order of the appends, with timestamps
\* that do not decrease; the results appended have increasing timestamps;
\* and when the loop is before its first check, waiting for a tick or has a
\* probe in flight, no result of it is left to append.
C19_HistoryInTickOrder ==
    \A c \in DOMAIN sc :
        /\ \A i, j \in DOMAIN appended[c] :
              i < j => appended[c][i].Timestamp < appended[c][j].Timestamp
        /\ \E k \in 0..(Len(appended[c]) - Len(sc[c].results)) :
              sc[c].results = SubSeq(appended[c], k + 1, k + Len(sc[c].results))
        /\ \A i, j \in DOMAIN sc[c].results :
              i < j => sc[c].results[i].Timestamp <= sc[c].results[j].Timestamp
        /\ \A g \in Goroutines :
              (self[g] = c /\ pc[g] \in {"first", "wait", "probing"})
              => newResult[g] = ZeroResult

\* a history of two results between whose timestamps the other checker's
\* result was stamped
C19_Witness ==
    \E c, d \in DOMAIN sc :
        /\ c # d
        /\ ~sc[c].mu.writer
        /\ Len(sc[c].results) = 2 /\ Len(sc[d].results) = 1
        /\ sc[c].results[1].Timestamp < sc[d].results[1].Timestamp
        /\ sc[d].results[1].Timestamp < sc[c].results[2].Timestamp

\* C20 as stated: the timer of a loop's next check runs only once the check
\* before it is over, so that no tick is delivered to ticker.C while a
\* check of that loop is in progress and the check that follows cannot start
\* the moment this one ends.
C20_FixedDelay ==
    \A g \in Goroutines :
        (caller[g] = "StartPolling" /\ InCheck(g)) => ~tickC[g]

\* C21: a checker's read lock is held by exactly the handlers that are
\* between RLock and RUnlock, with the copy in hand: a handler that is
\* serializing or has answered holds none, so that with no handler copying
\* the mutex has no reader and an append can take it.  What an answered query
\* has written is the copy it took, element by element, whatever the history
\* has become since.
C21_SerializeOutsideLock ==
    /\ \A c \in DOMAIN sc :
          /\ sc[c].mu.readers = Cardinality(Readers(c))
          /\ (Readers(c) = {} /\ ~sc[c].mu.writer) => CanLock(sc[c].mu)
    /\ \A h \in Answered :
          /\ Len(response[h].body) = Len(resultsCopy[h])
          /\ \A i \in 1..Len(resultsCopy[h]) :
                response[h].body[i] =
                    ResponseElement(resultsCopy[h][i], sc[reqSc[h]].path)

\* a query is serializing its copy, holding no lock, while an append to the
\* same checker holds the write lock and has stored a result the copy lacks
C21_Witness ==
    \E h \in Copied :
        LET c == reqSc[h]
        IN  /\ reqPc[h] = "encoding"
            /\ sc[c].mu.writer /\ sc[c].mu.readers = 0
            /\ \E g \in Goroutines : self[g] = c /\ pc[g] = "appended"
            /\ Len(resultsCopy[h]) = 1
            /\ Len(sc[c].results) = 2
            /\ sc[c].results[1] = resultsCopy[h][1]

\* the fields of a checker that are set at its creation
Identity(c) == <<c.moduleName, c.path, c.maxResults>>

\* C22: a step of a polling goroutine's check leaves every checker other than
\* its own unchanged (history, capacity, name, mutex) and changes of its own
\* checker only the history and the mutex; a step of a status query changes
\* no checker's history, capacity or name; and the results ever appended to
\* a checker change only by the append of its own goroutine.
C22_CheckChangesOwnHistoryOnly ==
    /\ [][\A g \in Goroutines :
            (g \in DOMAIN pc' /\ pc'[g] # pc[g])
            => /\ \A c \in DOMAIN sc \ {self[g]} :
                     sc'[c] = sc[c] /\ appended'[c] = appended[c]
               /\ Identity(sc'[self[g]]) = Identity(sc[self[g]])]_vars
    /\ [][\A h \in Handlers :
            reqPc'[h] # reqPc[h]
            => /\ appended' = appended
               /\ \A c \in DOMAIN sc :
                     /\ sc'[c].results = sc[c].results
                     /\ Identity(sc'[c]) = Identity(sc[c])]_vars
    /\ [][\A c \in DOMAIN sc :
            /\ Identity(sc'[c]) = Identity(sc[c])
            /\ appended'[c] # appended[c]
                  => \E g \in Goroutines : self[g] = c /\ pc[g] = "locked"]_vars

\* the first module has stored two results, the second one, which a query has
\* returned
C22_Witness ==
    /\ Len(sc) = 2
    /\ Len(appended[1]) = 2 /\ Len(appended[2]) = 1
    /\ pc[1] = "wait" /\ pc[2] = "wait"
    /\ sc[2].results = appended[2]
    /\ reqPc[1] = "done" /\ reqSc[1] = 2
    /\ Len(response[1].body) = 1

\* C23: once http.ListenAndServe listens, no step (of a status query, of a
\* listing query whatever its subprocess returns, or of a check) changes the
\* checkers map, the modules discovered at startup, the number of checkers
\* or a checker's module name; the map's keys are the modules discovered.
C23_RegistryFrozen ==
    /\ [](mainPc = "serving" => DOMAIN checkers = Range(discoveredModules))
    /\ [][mainPc = "serving"
            => /\ checkers' = checkers
               /\ discoveredModules' = discoveredModules
               /\ Len(sc') = Len(sc)
               /\ \A c \in DOMAIN sc :
                     sc'[c].moduleName = sc[c].moduleName]_vars

\* a listing query answered with names other than the registered ones, after
\* a check was stored, and the registry still holds the modules of startup
C23_Witness ==
    /\ reqPc[1] = "done" /\ reqPath[1] = <<"/">>
    /\ response[1].code = StatusOK
    /\ response[1].body.rsync_directories = <<debian, nonexistent>>
    /\ DOMAIN response[1].body.monitored_modules = {debian, ubuntu}
    /\ DOMAIN checkers = {debian, ubuntu}
    /\ Len(appended[1]) = 1

\* C24: every result a check has built or stored has, when up, an empty
\* Error, a zero RsyncExitCode and an empty RsyncOutput (even when the
\* subprocess printed something), and, when down, an empty Message; it is up
\* exactly when the probe returned no error.
C24_FieldsByOutcome ==
    /\ \A c \in DOMAIN appended : \A i \in DOMAIN appended[c] :
          LET r == appended[c][i]
          IN  /\ r.IsUp => (r.Error = <<>> /\ r.RsyncExitCode = 0
                            /\ r.RsyncOutput = <<>>)
              /\ ~r.IsUp => r.Message = <<>>
    /\ \A g \in Classified :
          LET r == newResult[g]
          IN  /\ r.IsUp <=> probe[g].err = "nil"
              /\ r.IsUp => (r.Error = <<>> /\ r.RsyncExitCode = 0
                            /\ r.RsyncOutput = <<>>)
              /\ ~r.IsUp => r.Message = <<>>

\* a down result with its three fields set and no message has been stored
C24_Witness ==
    \E g \in Goroutines :
        /\ pc[g] = "appended"
        /\ probe[g].err = "exit" /\ probe[g].status = 12
        /\ LET r == Last(appended[self[g]])
           IN  /\ ~r.IsUp /\ r.Message = <<>>
               /\ r.Error # <<>> /\ r.RsyncOutput # <<>>
               /\ r.RsyncExitCode = 12

\* C25: a checker's maxResults is at least 1 and is the integer quotient of
\* 24 h by the polling interval when that is at least 1 (maxResults
\* intervals fit in 24 h, one more does not), 288 under the interval of 300 s
\* and 1 under an interval above 24 h; no step changes it or the interval.
C25_CapacityFixed ==
    /\ [](\A c \in DOMAIN sc :
            LET n == sc[c].maxResults
                d == pollingInterval
            IN  /\ n >= 1
                /\ d <= DaySeconds
                      => (n * d <= DaySeconds /\ DaySeconds < (n + 1) * d)
                /\ d > DaySeconds => n = 1
                /\ d = 300 => n = 288)
    /\ [][/\ pollingInterval' = pollingInterval
          /\ \A c \in DOMAIN sc :
                c \in DOMAIN sc' /\ sc'[c].maxResults = sc[c].maxResults]_vars

\* under an interval of 25 h the capacity is 1: of two results appended the
\* history keeps one
C25_Witness ==
    /\ pollingInterval = 90000
    /\ sc[1].maxResults = 1
    /\ Len(appended[1]) = 2
    /\ Len(sc[1].results) = 1
    /\ \A g \in Goroutines : ~InCheck(g)

\* the polling loops StartPolling has started
Loops == {g \in Goroutines : caller[g] = "StartPolling"}

\* C26 as stated: once main's loop over the discovered modules is over, the
\* number of polling loops running equals the number of entries of the
\* checkers map, whatever listing the discovery returned.
C26_OneLoopPerEntry ==
    mainPc = "serving" => Cardinality(Loops) = Cardinality(DOMAIN checkers)

\* the positions of out where the first word of a line starts: a character
\* that is not white space, with nothing but white space between it and the
\* line break before it (or the start of the output)
FirstWordStarts(out) ==
    {i \in DOMAIN out :
        /\ out[i] \notin WhiteSpace
        /\ \A j \in 1..(i - 1) :
              (\A k \in j..(i - 1) : out[k] # "\n") => out[j] \in WhiteSpace}

\* the word of out that starts at position i
WordAt(out, i) ==
    LET ends == {e \in i..Len(out) :
                    \A k \in i..e : out[k] \notin WhiteSpace}
    IN  SubSeq(out, i, CHOOSE e \in ends : \A f \in ends : f <= e)

\* C27: when the discovery subprocess returns no error, the modules
\* discovered are, in the order of the output, exactly the first words of
\* the lines of the output that have a word (a word: a longest run of
\* characters that are not white space); when it returns an error, none
\* is discovered and the process ends.
C27_DiscoveryParsesFirstTokens ==
    /\ mainPc = "register"
          => /\ discovery.err = "nil"
             /\ LET starts == FirstWordStarts(discovery.out)
                IN  /\ Len(discoveredModules) = Cardinality(starts)
                    /\ \A i \in starts :
                          discoveredModules[
                              Cardinality({j \in starts : j <= i})]
                          = WordAt(discovery.out, i)
    /\ mainPc = "exited"
          => discovery.err \in {"exit", "launch"} /\ discoveredModules = <<>>
    /\ mainPc = "discover" => discoveredModules = <<>>

\* the listing "a b", a line of one space, " b": two modules, a and b
C27_Witness ==
    /\ mainPc = "register"
    /\ discovery.out = <<"a", " ", "b", "\n", " ", "\n", " ", "b">>
    /\ discoveredModules = << <<"a">>, <<"b">> >>

\* the number of results appended so far, over all the checkers
TotalAppended ==
    Cardinality(UNION {{<<c, i>> : i \in DOMAIN appended[c]} :
                          c \in DOMAIN appended})

\* C28: a checker has at most one check in progress (from the start of the
\* probe to the release of the lock); a polling loop starts a probe only
\* from before its first check or from the wait for a tick, there consuming
\* a tick, so never while its previous probe has not returned or its result
\* is not appended, even when a tick is waiting in the channel; after the
\* append it waits for the next tick; and every check started has its
\* result appended or still to append.
C28_OneProbeInFlight ==
    /\ [](\A c \in DOMAIN sc :
            Cardinality({g \in Goroutines : self[g] = c /\ InCheck(g)}) <= 1)
    /\ [](TotalAppended
            + Cardinality({g \in Goroutines :
                              pc[g] \in {"probing", "classified", "locked"}})
            = Cardinality({g \in Goroutines : pc[g] # "first"})
              + (MaxTickChecks - budget))
    /\ [][\A g \in Goroutines :
            /\ (pc'[g] = "probing" /\ pc[g] # "probing")
                  => /\ pc[g] \in {"first", "wait"}
                     /\ pc[g] = "wait" => (tickC[g] /\ ~tickC'[g])
                     /\ newResult[g] = ZeroResult /\ probe[g] = NoProbe
                     /\ ~sc[self[g]].mu.writer
            /\ (InCheck(g) /\ ~InCheck(g)')
                  => /\ pc[g] = "appended" /\ pc'[g] = "wait"
                     /\ Last(appended[self[g]]) = newResult[g]]_vars

\* a tick has fired while the probe of the loop's second check is in
\* flight: the tick waits in the channel
C28_Witness ==
    \E g \in Goroutines :
        /\ pc[g] = "probing"
        /\ tickC[g]
        /\ Len(appended[self[g]]) = 1
        /\ budget = MaxTickChecks - 1

\* C29: while a polling loop's probe is in flight its checker's mutex has no
\* writer, so a read lock can be taken; a handler that holds the read lock
\* has copied the history as it is; and a query for a registered module is
\* answered even if the probes never return, with as many elements as it
\* copied.
C29_QueryDuringProbe ==
    /\ [](\A g \in Goroutines :
            pc[g] = "probing"
            => ~sc[self[g]].mu.writer /\ CanRLock(sc[self[g]].mu))
    /\ [](\A h \in Handlers :
            /\ (reqSc[h] # 0 /\ reqPc[h] = "copied")
                  => resultsCopy[h] = sc[reqSc[h]].results
            /\ h \in Answered
                  => Len(response[h].body) = Len(resultsCopy[h]))
    /\ (reqPc[1] = "serve") ~> (reqPc[1] = "done")

\* a handler has copied the one result of the second checker while the probe
\* of that checker's second check is in flight
C29_Witness ==
    /\ Len(pc) = 2
    /\ pc[2] = "probing"
    /\ Len(appended[2]) = 1
    /\ reqSc[1] = 2 /\ reqPc[1] = "copied"
    /\ resultsCopy[1] = appended[2]
    /\ sc[2].mu.readers = 1

\* C30: every result a check has built or appended is up exactly when its
\* HTTPStatus is 200 and, when down, has HTTPStatus 404 or 500; the status
\* of an answered query for a registered module is 200, 404 or 500, and is
\* 200 exactly when the history copied is empty or its last result is up.
C30_StatusCodes ==
    /\ \A c \in DOMAIN appended : \A i \in DOMAIN appended[c] :
          LET r == appended[c][i]
          IN  /\ r.IsUp <=> r.HTTPStatus = StatusOK
              /\ ~r.IsUp => r.HTTPStatus \in {StatusNotFound,
                                               StatusInternalServerError}
    /\ \A g \in Classified :
          /\ newResult[g].IsUp <=> newResult[g].HTTPStatus = StatusOK
          /\ newResult[g].HTTPStatus
                \in {StatusOK, StatusNotFound, StatusInternalServerError}
    /\ \A h \in Answered :
          /\ response[h].code
                \in {StatusOK, StatusNotFound, StatusInternalServerError}
          /\ response[h].code = StatusOK
                <=> (resultsCopy[h] = <<>> \/ Last(resultsCopy[h]).IsUp)

\* a query answered 500: the last result copied is that of a probe that
\* could not be started, after a result that was up
C30_Witness ==
    \E h \in Answered :
        /\ response[h].code = StatusInternalServerError
        /\ Len(resultsCopy[h]) = 2
        /\ resultsCopy[h][1].IsUp /\ resultsCopy[h][1].HTTPStatus = StatusOK
        /\ ~resultsCopy[h][2].IsUp
        /\ resultsCopy[h][2].Error = ErroDesconhecido
        /\ resultsCopy[h][2].RsyncOutput = <<>>
====
